---- MODULE Spec2Model ----
(***************************************************************************)
(* Position maintenance of the portfolio tracker (backend/app/crud.py).    *)
(*                                                                         *)
(* The store holds the rows of the tables "transactions" and "positions"   *)
(* (backend/app/models.py).  Float columns are modelled as exact rationals *)
(* <<numerator, denominator>> in lowest terms, so that the arithmetic of   *)
(* crud.py (a product, a quotient, a difference) is computed as written    *)
(* and two values are equal exactly when the code's values are equal up to *)
(* floating-point rounding.                                                *)
(*                                                                         *)
(* Spec      : the handlers create_transaction and delete_transaction run  *)
(*             one after the other (every step is one whole handler).      *)
(* SpecConc  : two database sessions run the same handlers statement by    *)
(*             statement; every state is a committed state of the store.   *)
(***************************************************************************)
EXTENDS Integers, Sequences, FiniteSets, TLC

(***************************************************************************)
(* Bounds of the model.                                                    *)
(***************************************************************************)
\* The number of POST /transactions requests a run makes (the ids the
\* table "transactions" hands out), and the number of distinct dates.
MaxTx == 2
MaxDate == 2
\* The same number for the runs of two concurrent sessions.
MaxTxConc == 3
\* The same number for the runs of two concurrent sessions on two pairs.
MaxTxPairs == 2
\* The same number for the runs that read the portfolio summary.
MaxTxSummary == 3

\* get_transactions(db, user_id, limit=10000) of get_portfolio_summary.
TransactionsLimit == 10000

\* The values the requests are drawn from.
Users == {1, 2}
Assets == {1}
Dates == 1..MaxDate
Quantities == {1, 2}
Prices == {1, 2}
Fees == {0, 1}

(***************************************************************************)
(* Exact arithmetic for the Float columns.                                 *)
(***************************************************************************)
Abs(n) == IF n < 0 THEN -n ELSE n

RECURSIVE GCD(_, _)
GCD(a, b) == IF b = 0 THEN a ELSE GCD(b, a % b)

\* The value a division by zero leaves (Python raises ZeroDivisionError and
\* the handler fails); every operation on it gives it again.
ZeroDivisionError == <<0, 0>>

Norm(n, d) ==
    IF d = 0 THEN ZeroDivisionError
    ELSE LET g == GCD(Abs(n), d)
         IN  <<n \div g, d \div g>>

R(n) == <<n, 1>>
RAdd(x, y) == Norm(x[1] * y[2] + y[1] * x[2], x[2] * y[2])
RSub(x, y) == Norm(x[1] * y[2] - y[1] * x[2], x[2] * y[2])
RMul(x, y) == Norm(x[1] * y[1], x[2] * y[2])
\* x / y (Python raises ZeroDivisionError for y = 0).
RDiv(x, y) ==
    IF y[1] > 0 THEN Norm(x[1] * y[2], x[2] * y[1])
                ELSE Norm(-(x[1] * y[2]), x[2] * (-y[1]))
RLess(x, y) == x[1] * y[2] < y[1] * x[2]

(***************************************************************************)
(* models.py                                                               *)
(***************************************************************************)
BUY == "buy"
SELL == "sell"
TransactionType == {BUY, SELL}

\* The request body of POST /transactions after validation (schemas.py):
\* quantity > 0, price > 0, fee >= 0.
TransactionCreate ==
    [asset_id : Assets, transaction_type : TransactionType,
     quantity : {R(n) : n \in Quantities},
     price : {R(n) : n \in Prices},
     fee : {R(n) : n \in Fees},
     transaction_date : Dates]

\* The request bodies of POST /transactions, also those that name an asset
\* that is not in table "assets" (the table is not written by the handlers
\* modelled here: its rows are AssetRows).
AssetRows == {1, 2}
MissingAssets == {9}
TransactionRequest ==
    [asset_id : Assets \cup MissingAssets, transaction_type : TransactionType,
     quantity : {R(n) : n \in Quantities},
     price : {R(n) : n \in Prices},
     fee : {R(n) : n \in Fees},
     transaction_date : Dates]

\* get_asset: the row of table "assets" with this id, or None.
get_asset(asset_id) == {a \in AssetRows : a = asset_id}

EmptyStore == [transactions |-> {}, positions |-> {}, transaction_id_seq |-> 0]

\* The next value of an integer primary key: one more than the largest id
\* of the table (the rowid rule; a new row's id is above every stored id).
NextId(rows) ==
    IF rows = {} THEN 1
    ELSE (CHOOSE i \in {r.id : r \in rows} : \A r \in rows : r.id <= i) + 1

RowById(rows, id) == CHOOSE r \in rows : r.id = id

(***************************************************************************)
(* crud.py: Position CRUD                                                  *)
(***************************************************************************)
PositionsOf(st, user_id, asset_id) ==
    {p \in st.positions : p.user_id = user_id /\ p.asset_id = asset_id}

TransactionsOf(st, user_id, asset_id) ==
    {t \in st.transactions : t.user_id = user_id /\ t.asset_id = asset_id}

\* get_position_by_asset: .first() of an unordered query.  The result is
\* None ({}) or one matching row ({p}); with several matching rows any of
\* them may come first.
get_position_by_asset(st, user_id, asset_id) ==
    IF PositionsOf(st, user_id, asset_id) = {} THEN {{}}
    ELSE {{p} : p \in PositionsOf(st, user_id, asset_id)}

\* The flush of a modified Position object: UPDATE positions SET <the
\* attributes whose value changed since the load> WHERE id = old.id.
UpdatePositionRow(positions, old, new) ==
    {IF row.id = old.id
        THEN [row EXCEPT
                !.quantity = IF new.quantity # old.quantity
                                THEN new.quantity ELSE @,
                !.total_invested = IF new.total_invested # old.total_invested
                                      THEN new.total_invested ELSE @,
                !.average_buy_price =
                    IF new.average_buy_price # old.average_buy_price
                       THEN new.average_buy_price ELSE @]
        ELSE row : row \in positions}

\* The flush of transaction.realized_pnl = realized_pnl on the loaded
\* Transaction t: UPDATE transactions SET realized_pnl WHERE id = t.id, when
\* the value changed since the load.
UpdateRealizedPnl(transactions, t, realized_pnl) ==
    IF realized_pnl = t.realized_pnl THEN transactions
    ELSE {IF row.id = t.id THEN [row EXCEPT !.realized_pnl = realized_pnl]
                           ELSE row : row \in transactions}

DeletePositionRow(positions, id) == {row \in positions : row.id # id}

\* A faulty BUY that leaves the fee out of the invested capital.
BoughtPositionWithoutFee(p, t) ==
    LET new_quantity == RAdd(p.quantity, t.quantity)
        new_invested == RAdd(p.total_invested, RMul(t.quantity, t.price))
    IN  [p EXCEPT !.quantity = new_quantity,
                  !.total_invested = new_invested,
                  !.average_buy_price = RDiv(new_invested, new_quantity)]

\* Lines 156-160: a BUY on the existing Position p.
BoughtPosition(p, t) ==
    LET new_quantity == RAdd(p.quantity, t.quantity)
        new_invested == RAdd(p.total_invested, t.total_amount)
    IN  [p EXCEPT !.quantity = new_quantity,
                  !.total_invested = new_invested,
                  !.average_buy_price = RDiv(new_invested, new_quantity)]

\* Lines 163-169: the Position a BUY creates when there is none (the columns
\* current_price, current_value and unrealized_pnl take their default 0.0).
NewPosition(st, t) ==
    [id |-> NextId(st.positions),
     user_id |-> t.user_id,
     asset_id |-> t.asset_id,
     quantity |-> t.quantity,
     total_invested |-> t.total_amount,
     average_buy_price |-> t.price,
     current_price |-> R(0),
     current_value |-> R(0),
     unrealized_pnl |-> R(0)]

\* A faulty realized PnL that subtracts the fee of the SELL.
RealizedPnlAfterFee(p, t) ==
    RSub(RMul(RSub(t.price, p.average_buy_price), t.quantity), t.fee)

\* Line 175: the realized PnL of a SELL on the existing Position p.
RealizedPnl(p, t) == RMul(RSub(t.price, p.average_buy_price), t.quantity)

\* Lines 179-180: a SELL on the existing Position p.
SoldPosition(p, t) ==
    [p EXCEPT !.quantity = RSub(@, t.quantity),
              !.total_invested = RSub(@, RMul(p.average_buy_price, t.quantity))]

\* A faulty test that keeps a Position of quantity 0.
QuantityIsNegative(quantity) == quantity[1] < 0

\* Line 183: position.quantity <= 0.
QuantityIsGone(quantity) == quantity[1] <= 0

\* A faulty update that records the proceeds of a SELL without a Position
\* as its realized PnL.
update_position_recording_sale(st, t, position) ==
    IF t.transaction_type = BUY THEN
        IF position # {} THEN
            LET p == CHOOSE x \in position : TRUE
            IN  [st EXCEPT !.positions =
                    UpdatePositionRow(@, p, BoughtPosition(p, t))]
        ELSE
            [st EXCEPT !.positions = @ \cup {NewPosition(st, t)}]
    ELSE
        IF position # {} THEN
            LET p == CHOOSE x \in position : TRUE
            IN  [st EXCEPT
                   !.transactions =
                       UpdateRealizedPnl(@, t, RealizedPnl(p, t)),
                   !.positions =
                       IF QuantityIsGone(SoldPosition(p, t).quantity)
                          THEN DeletePositionRow(@, p.id)
                          ELSE UpdatePositionRow(@, p, SoldPosition(p, t))]
        ELSE [st EXCEPT !.transactions =
                     UpdateRealizedPnl(@, t, RMul(t.price, t.quantity))]

\* update_position_after_transaction, lines 153-186, for the Position object
\* `position` that line 151 returned ({} for None) and the Transaction t.
update_position_after_transaction(st, t, position) ==
    IF t.transaction_type = BUY THEN
        IF position # {} THEN
            LET p == CHOOSE x \in position : TRUE
            IN  [st EXCEPT !.positions =
                    UpdatePositionRow(@, p, BoughtPosition(p, t))]
        ELSE
            [st EXCEPT !.positions = @ \cup {NewPosition(st, t)}]
    ELSE
        IF position # {} THEN
            LET p == CHOOSE x \in position : TRUE
            IN  [st EXCEPT
                   !.transactions =
                       UpdateRealizedPnl(@, t, RealizedPnl(p, t)),
                   !.positions =
                       IF QuantityIsGone(SoldPosition(p, t).quantity)
                          THEN DeletePositionRow(@, p.id)
                          ELSE UpdatePositionRow(@, p, SoldPosition(p, t))]
        ELSE st

\* Line 151 and lines 153-186 in one piece: the Transaction row is loaded
\* again by its id (the commit before expired it), the Position is read and
\* the update is applied.
ApplyStored(st, id) ==
    LET t == RowById(st.transactions, id)
    IN  {update_position_after_transaction(st, t, position) :
            position \in get_position_by_asset(st, t.user_id, t.asset_id)}

(***************************************************************************)
(* crud.py: recalculate_position                                           *)
(***************************************************************************)
\* The ids of the rows of txs in the orders that ORDER BY transaction_date
\* can return them: ascending by date, rows of equal date in any order.
RECURSIVE OrderByDate(_)
OrderByDate(txs) ==
    IF txs = {} THEN {<<>>}
    ELSE LET first == {t \in txs : \A o \in txs :
                          t.transaction_date <= o.transaction_date}
         IN  UNION {{<<t.id>> \o rest : rest \in OrderByDate(txs \ {t})} :
                       t \in first}

\* Lines 210-211: the loop over the loaded transactions.
RECURSIVE Replay(_, _)
Replay(st, ids) ==
    IF ids = <<>> THEN {st}
    ELSE UNION {Replay(st2, Tail(ids)) : st2 \in ApplyStored(st, Head(ids))}

\* A faulty recompute that replays on top of the existing position.
KeepExistingPosition(st, user_id, asset_id) == {st}

\* Lines 193-196: the existing position, if any, is deleted and committed.
DeleteExistingPosition(st, user_id, asset_id) ==
    {[st EXCEPT !.positions =
         IF position = {} THEN @
         ELSE DeletePositionRow(@, (CHOOSE x \in position : TRUE).id)] :
        position \in get_position_by_asset(st, user_id, asset_id)}

recalculate_position(st, user_id, asset_id) ==
    UNION {UNION {Replay(st1, ids) :
                     ids \in OrderByDate(TransactionsOf(st1, user_id, asset_id))} :
              st1 \in DeleteExistingPosition(st, user_id, asset_id)}

(***************************************************************************)
(* crud.py: Transaction CRUD                                               *)
(***************************************************************************)
\* A faulty row whose realized_pnl starts at the fee.
NewTransactionWithPnl(st, transaction, user_id) ==
    [id |-> st.transaction_id_seq + 1,
     user_id |-> user_id,
     asset_id |-> transaction.asset_id,
     transaction_type |-> transaction.transaction_type,
     quantity |-> transaction.quantity,
     price |-> transaction.price,
     fee |-> transaction.fee,
     total_amount |->
         RAdd(RMul(transaction.quantity, transaction.price), transaction.fee),
     realized_pnl |-> transaction.fee,
     transaction_date |-> transaction.transaction_date]

\* Lines 94-107: the new Transaction row (realized_pnl takes its column
\* default 0.0).
NewTransaction(st, transaction, user_id) ==
    [id |-> st.transaction_id_seq + 1,
     user_id |-> user_id,
     asset_id |-> transaction.asset_id,
     transaction_type |-> transaction.transaction_type,
     quantity |-> transaction.quantity,
     price |-> transaction.price,
     fee |-> transaction.fee,
     total_amount |->
         RAdd(RMul(transaction.quantity, transaction.price), transaction.fee),
     realized_pnl |-> R(0),
     transaction_date |-> transaction.transaction_date]

\* Lines 109-110: db.add; db.commit.
InsertTransaction(st, transaction, user_id) ==
    [st EXCEPT !.transactions = @ \cup {NewTransaction(st, transaction, user_id)},
               !.transaction_id_seq = @ + 1]

\* create_transaction: the stores it can end in.
create_transaction(st, transaction, user_id) ==
    ApplyStored(InsertTransaction(st, transaction, user_id),
                st.transaction_id_seq + 1)

\* A faulty lookup that does not look at the owner of the row.
get_transaction_of_any_user(st, transaction_id, user_id) ==
    {t \in st.transactions : t.id = transaction_id}

\* get_transaction: the row with this id owned by this user, or None.
get_transaction(st, transaction_id, user_id) ==
    {t \in st.transactions : t.id = transaction_id /\ t.user_id = user_id}

\* Lines 121-122: db.delete(transaction); db.commit.
DeleteTransactionRow(st, transaction_id) ==
    [st EXCEPT !.transactions = {t \in @ : t.id # transaction_id}]

\* A faulty delete that does not recalculate the position.
delete_transaction_without_recalculate(st, transaction_id, user_id) ==
    IF get_transaction(st, transaction_id, user_id) # {}
       THEN {DeleteTransactionRow(st, transaction_id)}
       ELSE {st}

\* delete_transaction: the stores it can end in.
delete_transaction(st, transaction_id, user_id) ==
    IF get_transaction(st, transaction_id, user_id) # {} THEN
        LET transaction ==
                CHOOSE t \in get_transaction(st, transaction_id, user_id) : TRUE
        IN  recalculate_position(DeleteTransactionRow(st, transaction_id),
                                 user_id, transaction.asset_id)
    ELSE {st}

\* What delete_transaction returns.
delete_transaction_returns(st, transaction_id, user_id) ==
    get_transaction(st, transaction_id, user_id) # {}

(***************************************************************************)
(* crud.py: Analytics                                                      *)
(***************************************************************************)
\* sum(...) of Float values: f gives the value of every element of rows.
RECURSIVE RSum(_, _)
RSum(f, rows) ==
    IF rows = {} THEN R(0)
    ELSE LET row == CHOOSE x \in rows : TRUE
         IN  RAdd(f[row], RSum(f, rows \ {row}))

\* A faulty query that returns the Positions of every user.
get_positions_of_all_users(st, user_id) == st.positions

\* get_positions: the Position rows of the user.
get_positions(st, user_id) == {p \in st.positions : p.user_id = user_id}

\* get_transactions: the rows of the user ORDER BY transaction_date DESC
\* (rows of equal date in any order), OFFSET skip, LIMIT limit.  The summary
\* only filters and sums the rows, so the result is kept as the set of the
\* rows returned; there is one result for every order the query can take.
get_transactions(st, user_id, skip, limit) ==
    LET txs == {t \in st.transactions : t.user_id = user_id}
        n == Cardinality(txs)
    IN  {{RowById(txs, ids[n + 1 - i]) :
             i \in {j \in 1..n : skip < j /\ j <= skip + limit}} :
            ids \in OrderByDate(txs)}

\* A faulty percentage that divides without looking at the denominator.
PercentageUnguarded(pnl, invested) == RMul(RDiv(pnl, invested), R(100))

\* Line 227 and line 238: (pnl / invested * 100) if invested > 0 else 0.
Percentage(pnl, invested) ==
    IF RLess(R(0), invested)
       THEN RMul(RDiv(pnl, invested), R(100))
       ELSE R(0)

\* Line 241: f"{days}d".
PeriodName(days) ==
    CASE days = 7 -> "7d" [] days = 30 -> "30d" [] days = 365 -> "365d"

\* A faulty window that leaves out the transactions dated exactly at its
\* start.
calculate_period_pnl_after_start(txs, unrealized_pnl, now, days) ==
    LET start_date == now - days
        period_transactions ==
            {t \in txs : t.transaction_date > start_date}
        period_realized ==
            RSum([t \in period_transactions |-> t.realized_pnl],
                 {t \in period_transactions : t.transaction_type = SELL})
        period_total == RAdd(period_realized, unrealized_pnl)
        period_invested ==
            RSum([t \in period_transactions |-> t.total_amount],
                 {t \in period_transactions : t.transaction_type = BUY})
    IN  [period |-> PeriodName(days),
         total_pnl |-> period_total,
         total_pnl_percentage |-> Percentage(period_total, period_invested),
         realized_pnl |-> period_realized,
         unrealized_pnl |-> unrealized_pnl]

\* calculate_period_pnl(days), lines 232-246, for the transactions and the
\* unrealized_pnl of the enclosing get_portfolio_summary and its clock now.
\* Dates and the clock count days.
calculate_period_pnl(txs, unrealized_pnl, now, days) ==
    LET start_date == now - days
        period_transactions ==
            {t \in txs : t.transaction_date >= start_date}
        period_realized ==
            RSum([t \in period_transactions |-> t.realized_pnl],
                 {t \in period_transactions : t.transaction_type = SELL})
        period_total == RAdd(period_realized, unrealized_pnl)
        period_invested ==
            RSum([t \in period_transactions |-> t.total_amount],
                 {t \in period_transactions : t.transaction_type = BUY})
    IN  [period |-> PeriodName(days),
         total_pnl |-> period_total,
         total_pnl_percentage |-> Percentage(period_total, period_invested),
         realized_pnl |-> period_realized,
         unrealized_pnl |-> unrealized_pnl]

\* Lines 221-265 for the rows that lines 218-219 loaded.
PortfolioSummary(user_positions, txs, now) ==
    LET total_invested ==
            RSum([p \in user_positions |-> p.total_invested], user_positions)
        current_value ==
            RSum([p \in user_positions |-> p.current_value], user_positions)
        unrealized_pnl ==
            RSum([p \in user_positions |-> p.unrealized_pnl], user_positions)
        realized_pnl ==
            RSum([t \in txs |-> t.realized_pnl],
                 {t \in txs : t.transaction_type = SELL})
        total_pnl == RAdd(realized_pnl, unrealized_pnl)
        total_pnl_percentage == Percentage(total_pnl, total_invested)
    IN  [total_invested |-> total_invested,
         current_value |-> current_value,
         total_pnl |-> total_pnl,
         total_pnl_percentage |-> total_pnl_percentage,
         total_positions |-> Cardinality(user_positions),
         total_transactions |-> Cardinality(txs),
         pnl_7d |-> calculate_period_pnl(txs, unrealized_pnl, now, 7),
         pnl_30d |-> calculate_period_pnl(txs, unrealized_pnl, now, 30),
         pnl_1y |-> calculate_period_pnl(txs, unrealized_pnl, now, 365),
         pnl_all |-> [period |-> "all",
                      total_pnl |-> total_pnl,
                      total_pnl_percentage |-> total_pnl_percentage,
                      realized_pnl |-> realized_pnl,
                      unrealized_pnl |-> unrealized_pnl]]

\* get_portfolio_summary at clock value now: the summaries it can return
\* (one for every result of the transactions query).
get_portfolio_summary(st, user_id, now) ==
    {PortfolioSummary(get_positions(st, user_id), txs, now) :
        txs \in get_transactions(st, user_id, 0, TransactionsLimit)}

(***************************************************************************)
(* The price feed.  current_price, current_value and unrealized_pnl of a   *)
(* Position are written by a price refresh that is not part of crud.py:    *)
(* current_value = quantity * current_price and unrealized_pnl =           *)
(* current_value - total_invested.                                         *)
(***************************************************************************)
refresh_price(st, position_id, current_price) ==
    [st EXCEPT !.positions =
        {IF p.id = position_id
            THEN [p EXCEPT
                    !.current_price = current_price,
                    !.current_value = RMul(p.quantity, current_price),
                    !.unrealized_pnl =
                        RSub(RMul(p.quantity, current_price),
                             p.total_invested)]
            ELSE p : p \in @}]

(***************************************************************************)
(* main.py: the transaction routes                                         *)
(***************************************************************************)
\* POST /transactions: 404 "Asset not found" before anything is written
\* when the asset does not exist, else crud.create_transaction.
create_transaction_status(st, transaction, user_id) ==
    IF get_asset(transaction.asset_id) = {} THEN 404 ELSE 200

create_transaction_route(st, transaction, user_id) ==
    IF get_asset(transaction.asset_id) = {}
       THEN {st}
       ELSE create_transaction(st, transaction, user_id)

\* DELETE /transactions/{transaction_id}: 404 when crud.delete_transaction
\* returns False.
delete_transaction_status(st, transaction_id, user_id) ==
    IF delete_transaction_returns(st, transaction_id, user_id)
       THEN 200 ELSE 404

(***************************************************************************)
(* State                                                                   *)
(***************************************************************************)
Sessions == {1, 2}

VARIABLES
    transactions,        \* the rows of table "transactions"
    positions,           \* the rows of table "positions"
    transaction_id_seq,  \* the last id the table "transactions" handed out
    pc,                  \* per session: the statement its request is at
    loc,                 \* per session: the objects its request holds
    base,                \* the store when the requests in flight began
    started              \* the requests begun since then, in order

vars == <<transactions, positions, transaction_id_seq, pc, loc, base, started>>

store ==
    [transactions |-> transactions, positions |-> positions,
     transaction_id_seq |-> transaction_id_seq]

\* A session between two requests holds nothing.
NoLocals ==
    [op |-> "none", id |-> 0, user_id |-> 0, asset_id |-> 0,
     transaction |-> {}, position |-> {}, todo |-> <<>>]

Init ==
    /\ transactions = {}
    /\ positions = {}
    /\ transaction_id_seq = 0
    /\ pc = [s \in Sessions |-> "idle"]
    /\ loc = [s \in Sessions |-> NoLocals]
    /\ base = EmptyStore
    /\ started = <<>>

(***************************************************************************)
(* Spec: one request at a time, every step a whole handler.                *)
(***************************************************************************)
\* POST /transactions (at most MaxTx of them in a run).
CreateTransaction(transaction, user_id) ==
    /\ transaction_id_seq < MaxTx
    /\ \E st \in create_transaction_route(store, transaction, user_id) :
          /\ transactions' = st.transactions
          /\ positions' = st.positions
          /\ transaction_id_seq' = st.transaction_id_seq
    /\ UNCHANGED <<pc, loc, base, started>>

\* DELETE /transactions/{transaction_id}.
DeleteTransaction(transaction_id, user_id) ==
    /\ \E st \in delete_transaction(store, transaction_id, user_id) :
          /\ transactions' = st.transactions
          /\ positions' = st.positions
          /\ transaction_id_seq' = st.transaction_id_seq
    /\ UNCHANGED <<pc, loc, base, started>>

Next ==
    \/ \E transaction \in TransactionRequest, user_id \in Users :
          CreateTransaction(transaction, user_id)
    \/ \E transaction_id \in 1..MaxTx, user_id \in Users :
          DeleteTransaction(transaction_id, user_id)

Spec == Init /\ [][Next]_vars

(***************************************************************************)
(* SpecConc: two sessions, every step one statement or one commit of a     *)
(* request.  A read sees the committed rows; a flush writes the rows of    *)
(* the objects the session loaded earlier; nothing locks a row between the *)
(* read of line 151 and the commit of line 186.                            *)
(***************************************************************************)
\* The requests of the concurrent runs.
ConcTransactionCreate ==
    [asset_id : Assets, transaction_type : TransactionType,
     quantity : {R(1)}, price : {R(1), R(2)}, fee : {R(0)},
     transaction_date : {1}]
ConcUsers == {1}

Quiescent == \A s \in Sessions : pc[s] = "idle"

\* A request begins: the first one in flight fixes the base store; of more
\* than two requests overlapping only the fact is kept.
ManyRequests ==
    [op |-> "many", transaction |-> {}, id |-> 0, user_id |-> 0, asset_id |-> 0]

Begin(request) ==
    IF Quiescent
       THEN base' = store /\ started' = <<request>>
       ELSE IF Len(started) < 2
               THEN base' = base /\ started' = Append(started, request)
               ELSE base' = EmptyStore /\ started' = <<ManyRequests>>

\* The flush of line 186 fails (StaleDataError, the request ends with the
\* database transaction rolled back) when an UPDATE finds its row gone.
Stale(st, t, position) ==
    /\ position # {}
    /\ LET p == CHOOSE x \in position : TRUE
       IN  IF t.transaction_type = BUY
              THEN p.id \notin {row.id : row \in st.positions}
              ELSE \/ /\ RealizedPnl(p, t) # t.realized_pnl
                      /\ t.id \notin {row.id : row \in st.transactions}
                   \/ /\ ~QuantityIsGone(SoldPosition(p, t).quantity)
                      /\ p.id \notin {row.id : row \in st.positions}

\* create_transaction, lines 94-110: the Transaction is added and committed.
ConcInsert(s, transaction, user_id) ==
    /\ pc[s] = "idle"
    /\ transaction_id_seq < MaxTxConc
    /\ LET st == InsertTransaction(store, transaction, user_id)
       IN  /\ transactions' = st.transactions
           /\ transaction_id_seq' = st.transaction_id_seq
    /\ UNCHANGED positions
    /\ pc' = [pc EXCEPT ![s] = "update_read"]
    /\ loc' = [loc EXCEPT ![s] =
                  [NoLocals EXCEPT !.op = "create",
                                   !.id = transaction_id_seq + 1,
                                   !.user_id = user_id,
                                   !.asset_id = transaction.asset_id]]
    /\ Begin([op |-> "create", transaction |-> {transaction}, id |-> 0,
              user_id |-> user_id, asset_id |-> transaction.asset_id])

\* update_position_after_transaction, line 151: the Transaction (expired by
\* the commit before) is loaded again and the Position is read.  When the
\* Transaction row is gone the load raises and the request ends.
UpdateRead(s) ==
    /\ pc[s] = "update_read"
    /\ LET found == {t \in transactions : t.id = loc[s].id}
       IN  IF found = {}
              THEN /\ pc' = [pc EXCEPT ![s] = "idle"]
                   /\ loc' = [loc EXCEPT ![s] = NoLocals]
              ELSE \E position \in
                        get_position_by_asset(store, loc[s].user_id,
                                              loc[s].asset_id) :
                      /\ pc' = [pc EXCEPT ![s] = "update_write"]
                      /\ loc' = [loc EXCEPT ![s].transaction = found,
                                            ![s].position = position]
    /\ UNCHANGED <<transactions, positions, transaction_id_seq, base, started>>

\* update_position_after_transaction, lines 153-186: the update of the
\* objects read at line 151, flushed and committed; then the next
\* transaction of the replay loop, if any.
UpdateWrite(s) ==
    /\ pc[s] = "update_write"
    /\ LET t == CHOOSE x \in loc[s].transaction : TRUE
       IN  IF Stale(store, t, loc[s].position)
              THEN /\ UNCHANGED <<transactions, positions>>
                   /\ pc' = [pc EXCEPT ![s] = "idle"]
                   /\ loc' = [loc EXCEPT ![s] = NoLocals]
              ELSE /\ LET st == update_position_after_transaction(
                                    store, t, loc[s].position)
                      IN  /\ transactions' = st.transactions
                          /\ positions' = st.positions
                   /\ IF loc[s].todo = <<>>
                         THEN /\ pc' = [pc EXCEPT ![s] = "idle"]
                              /\ loc' = [loc EXCEPT ![s] = NoLocals]
                         ELSE /\ pc' = [pc EXCEPT ![s] = "update_read"]
                              /\ loc' = [loc EXCEPT
                                            ![s].id = Head(loc[s].todo),
                                            ![s].todo = Tail(loc[s].todo),
                                            ![s].transaction = {},
                                            ![s].position = {}]
    /\ UNCHANGED <<transaction_id_seq, base, started>>

\* delete_transaction, lines 119-120: the lookup of the transaction.  None
\* found: the handler returns False.
ConcGet(s, transaction_id, user_id) ==
    /\ pc[s] = "idle"
    /\ LET found == get_transaction(store, transaction_id, user_id)
       IN  IF found = {}
              THEN UNCHANGED <<pc, loc, base, started>>
              ELSE /\ pc' = [pc EXCEPT ![s] = "delete_commit"]
                   /\ loc' = [loc EXCEPT ![s] =
                                 [NoLocals EXCEPT
                                    !.op = "delete",
                                    !.id = transaction_id,
                                    !.user_id = user_id,
                                    !.asset_id =
                                        (CHOOSE t \in found : TRUE).asset_id]]
                   /\ Begin([op |-> "delete", transaction |-> {},
                             id |-> transaction_id, user_id |-> user_id,
                             asset_id |->
                                 (CHOOSE t \in found : TRUE).asset_id])
    /\ UNCHANGED <<transactions, positions, transaction_id_seq>>

\* delete_transaction, lines 121-122: the row is deleted and committed.
DeleteCommit(s) ==
    /\ pc[s] = "delete_commit"
    /\ transactions' = DeleteTransactionRow(store, loc[s].id).transactions
    /\ pc' = [pc EXCEPT ![s] = "recalc_get"]
    /\ UNCHANGED <<positions, transaction_id_seq, loc, base, started>>

\* recalculate_position, lines 193-194: the existing position is read.
RecalcGet(s) ==
    /\ pc[s] = "recalc_get"
    /\ \E position \in
           get_position_by_asset(store, loc[s].user_id, loc[s].asset_id) :
          /\ loc' = [loc EXCEPT ![s].position = position]
          /\ pc' = [pc EXCEPT ![s] = IF position = {} THEN "recalc_query"
                                                     ELSE "recalc_delete"]
    /\ UNCHANGED <<transactions, positions, transaction_id_seq, base, started>>

\* recalculate_position, lines 195-196: it is deleted and committed.
RecalcDelete(s) ==
    /\ pc[s] = "recalc_delete"
    /\ positions' =
          DeletePositionRow(positions,
                            (CHOOSE x \in loc[s].position : TRUE).id)
    /\ pc' = [pc EXCEPT ![s] = "recalc_query"]
    /\ loc' = [loc EXCEPT ![s].position = {}]
    /\ UNCHANGED <<transactions, transaction_id_seq, base, started>>

\* recalculate_position, lines 199-210: the transactions of the pair are
\* loaded in date order; the loop starts with the first, if any.
RecalcQuery(s) ==
    /\ pc[s] = "recalc_query"
    /\ \E ids \in OrderByDate(TransactionsOf(store, loc[s].user_id,
                                              loc[s].asset_id)) :
          IF ids = <<>>
             THEN /\ pc' = [pc EXCEPT ![s] = "idle"]
                  /\ loc' = [loc EXCEPT ![s] = NoLocals]
             ELSE /\ pc' = [pc EXCEPT ![s] = "update_read"]
                  /\ loc' = [loc EXCEPT ![s].id = Head(ids),
                                        ![s].todo = Tail(ids)]
    /\ UNCHANGED <<transactions, positions, transaction_id_seq, base, started>>

NextConc ==
    \/ \E s \in Sessions, transaction \in ConcTransactionCreate,
          user_id \in ConcUsers : ConcInsert(s, transaction, user_id)
    \/ \E s \in Sessions, transaction_id \in 1..MaxTxConc,
          user_id \in ConcUsers : ConcGet(s, transaction_id, user_id)
    \/ \E s \in Sessions : UpdateRead(s)
    \/ \E s \in Sessions : UpdateWrite(s)
    \/ \E s \in Sessions : DeleteCommit(s)
    \/ \E s \in Sessions : RecalcGet(s)
    \/ \E s \in Sessions : RecalcDelete(s)
    \/ \E s \in Sessions : RecalcQuery(s)

SpecConc == Init /\ [][NextConc]_vars

(***************************************************************************)
(* SpecPairs: two sessions run the handlers statement by statement, as in  *)
(* SpecConc, for two users: the requests in flight can be on different     *)
(* (user, asset) pairs.                                                    *)
(***************************************************************************)
\* The requests of these runs: a BUY of 1 at 1 and a SELL of 1 at 2.
PairTransactionCreate ==
    {t \in ConcTransactionCreate :
        t.price = (IF t.transaction_type = BUY THEN R(1) ELSE R(2))}

\* POST /transactions (at most MaxTxPairs of them in a run).
PairInsert(s, transaction, user_id) ==
    /\ transaction_id_seq < MaxTxPairs
    /\ ConcInsert(s, transaction, user_id)

NextPairs ==
    \/ \E s \in Sessions, transaction \in PairTransactionCreate,
          user_id \in Users : PairInsert(s, transaction, user_id)
    \/ \E s \in Sessions, transaction_id \in 1..MaxTxPairs,
          user_id \in Users : ConcGet(s, transaction_id, user_id)
    \/ \E s \in Sessions : UpdateRead(s)
    \/ \E s \in Sessions : UpdateWrite(s)
    \/ \E s \in Sessions : DeleteCommit(s)
    \/ \E s \in Sessions : RecalcGet(s)
    \/ \E s \in Sessions : RecalcDelete(s)
    \/ \E s \in Sessions : RecalcQuery(s)

SpecPairs == Init /\ [][NextPairs]_vars

(***************************************************************************)
(* SpecSummary: the handlers run one at a time on two assets, prices are   *)
(* refreshed, and GET /portfolio/summary reads the store.                  *)
(***************************************************************************)
SummaryAssets == {1, 2}
SummaryDates == {1, 2}

\* The requests of user 1 in these runs: a BUY of 2 at 1 with a fee of 1, a
\* SELL of 1 at 2 without a fee, of either asset on either date.
SummaryTransactionCreate ==
    [asset_id : SummaryAssets, transaction_type : {BUY},
     quantity : {R(2)}, price : {R(1)}, fee : {R(1)},
     transaction_date : SummaryDates]
    \cup
    [asset_id : SummaryAssets, transaction_type : {SELL},
     quantity : {R(1)}, price : {R(2)}, fee : {R(0)},
     transaction_date : SummaryDates]

\* The requests of user 2: the BUY on date 1 and the SELL on date 2 of
\* asset 1.
OtherTransactionCreate ==
    {t \in SummaryTransactionCreate :
        /\ t.asset_id = 1
        /\ t.transaction_date = (IF t.transaction_type = BUY THEN 1 ELSE 2)}

\* The prices of the feed, and the values of the clock (in days, as the
\* dates): on and after the dates, and at the edge of every window.
FeedPrices == {R(3)}
Nows == {2, 9, 12, 32, 367, 368}

\* POST /transactions (at most MaxTxSummary of them in a run).
RecordTransaction(transaction, user_id) ==
    /\ transaction_id_seq < MaxTxSummary
    /\ \E st \in create_transaction_route(store, transaction, user_id) :
          /\ transactions' = st.transactions
          /\ positions' = st.positions
          /\ transaction_id_seq' = st.transaction_id_seq
    /\ UNCHANGED <<pc, loc, base, started>>

\* The price feed refreshes one Position.
RefreshPrice(position_id, current_price) ==
    /\ position_id \in {p.id : p \in positions}
    /\ positions' = refresh_price(store, position_id, current_price).positions
    /\ UNCHANGED <<transactions, transaction_id_seq, pc, loc, base, started>>

\* GET /portfolio/summary: a read of the store.
GetPortfolioSummary(user_id, now) ==
    /\ get_portfolio_summary(store, user_id, now) # {}
    /\ UNCHANGED vars

NextSummary ==
    \/ \E transaction \in SummaryTransactionCreate :
          RecordTransaction(transaction, 1)
    \/ \E transaction \in OtherTransactionCreate :
          RecordTransaction(transaction, 2)
    \/ \E transaction_id \in 1..MaxTxSummary, user_id \in Users :
          DeleteTransaction(transaction_id, user_id)
    \/ \E position_id \in 1..MaxTxSummary, current_price \in FeedPrices :
          RefreshPrice(position_id, current_price)
    \/ \E user_id \in Users, now \in Nows :
          GetPortfolioSummary(user_id, now)

SpecSummary == Init /\ [][NextSummary]_vars

(***************************************************************************)
(* Properties.                                                             *)
(***************************************************************************)
Pairs == Users \X Assets

\* What a Position record says about the holding (its row id left out).
View(p) ==
    [quantity |-> p.quantity, total_invested |-> p.total_invested,
     average_buy_price |-> p.average_buy_price]

\* The Position of a pair in a store: {} for no Position.
PositionView(st, user_id, asset_id) ==
    {View(p) : p \in PositionsOf(st, user_id, asset_id)}

storeNext ==
    [transactions |-> transactions', positions |-> positions',
     transaction_id_seq |-> transaction_id_seq']

\* The step is a create_transaction call; Created is the row it stored.
IsCreate == transaction_id_seq' = transaction_id_seq + 1
Created == RowById(transactions', transaction_id_seq')

\* The request that stored the row t.
Payload(t) ==
    [asset_id |-> t.asset_id, transaction_type |-> t.transaction_type,
     quantity |-> t.quantity, price |-> t.price, fee |-> t.fee,
     transaction_date |-> t.transaction_date]

\* The histories of a set of transactions: its rows (by id) in ascending
\* order of transaction_date.
Histories(txs) ==
    {h \in [1..Cardinality(txs) -> {t.id : t \in txs}] :
        /\ \A i, j \in DOMAIN h : i # j => h[i] # h[j]
        /\ \A i, j \in DOMAIN h :
              i < j => RowById(txs, h[i]).transaction_date
                          <= RowById(txs, h[j]).transaction_date}

DistinctDates(txs) ==
    \A t1, t2 \in txs : t1 # t2 => t1.transaction_date # t2.transaction_date

\* The quantity held after the first k transactions of history h.
RECURSIVE Held(_, _, _)
Held(h, txs, k) ==
    IF k = 0 THEN R(0)
    ELSE LET t == RowById(txs, h[k])
         IN  IF t.transaction_type = BUY
                THEN RAdd(Held(h, txs, k - 1), t.quantity)
                ELSE RSub(Held(h, txs, k - 1), t.quantity)

NoOversell(h, txs) == \A k \in DOMAIN h : Held(h, txs, k)[1] >= 0

\* The stores that recording the transactions of history h one by one, in
\* that order, with create_transaction can end in.
RECURSIVE Incremental(_, _, _)
Incremental(st, h, txs) ==
    IF h = <<>> THEN {st}
    ELSE LET t == RowById(txs, Head(h))
         IN  UNION {Incremental(st2, Tail(h), txs) :
                       st2 \in create_transaction(st, Payload(t), t.user_id)}

\* The stores that replaying history h of the stored transactions txs from
\* the empty state (no Position) can end in.
ReplayFromEmpty(txs, h) ==
    Replay([transactions |-> txs, positions |-> {},
            transaction_id_seq |-> transaction_id_seq], h)

\* The stored transactions of the pair were submitted in strictly ascending
\* order of transaction_date (ids are handed out in submission order).
SubmittedInDateOrder(user_id, asset_id) ==
    \A t1, t2 \in TransactionsOf(store, user_id, asset_id) :
        t1.id < t2.id => t1.transaction_date < t2.transaction_date

\* Nothing was deleted: every id handed out is still stored.
NothingDeleted == Cardinality(transactions) = transaction_id_seq

(***************************************************************************)
(* C1.  Replay equivalence, as stated: for every history H (ascending by   *)
(* date, no oversell) of the stored transactions of a pair,                *)
(* recalculate_position ends with the Position that recording H one by one *)
(* from no Position ends with.                                             *)
(***************************************************************************)
ReplayAgrees(user_id, asset_id, h) ==
    {PositionView(st, user_id, asset_id) :
        st \in recalculate_position(store, user_id, asset_id)}
    = {PositionView(st, user_id, asset_id) :
        st \in Incremental(EmptyStore, h,
                           TransactionsOf(store, user_id, asset_id))}

C1_ReplayEquivalenceAnyDates ==
    \A pair \in Pairs :
        LET txs == TransactionsOf(store, pair[1], pair[2])
        IN  \A h \in Histories(txs) :
                NoOversell(h, txs) => ReplayAgrees(pair[1], pair[2], h)

\* C1 (amended).  Replay equivalence for histories whose transaction dates
\* are pairwise distinct: recalculate_position over H ends with the same
\* Position (quantity, total_invested, average cost, or none) as recording
\* the transactions of H one by one in that order from no Position.
C1_ReplayEquivalence ==
    \A pair \in Pairs :
        LET txs == TransactionsOf(store, pair[1], pair[2])
        IN  DistinctDates(txs) =>
                \A h \in Histories(txs) :
                    NoOversell(h, txs) => ReplayAgrees(pair[1], pair[2], h)

\* A pair holds a BUY and a later-dated partial SELL, and a Position: the
\* recompute of the formula replays a history of two and ends with one.
C1_Witness ==
    \E b, s \in transactions :
        /\ b.user_id = s.user_id /\ b.asset_id = s.asset_id
        /\ b.transaction_type = BUY /\ s.transaction_type = SELL
        /\ b.transaction_date < s.transaction_date
        /\ RLess(s.quantity, b.quantity)
        /\ \E st \in recalculate_position(store, b.user_id, b.asset_id) :
              PositionView(st, b.user_id, b.asset_id) # {}

(***************************************************************************)
(* C2.  Cost-basis invariant: every stored Position has                    *)
(* total_invested = quantity * average_buy_price.                          *)
(***************************************************************************)
C2_CostBasisInvariant ==
    \A p \in positions :
        p.total_invested = RMul(p.quantity, p.average_buy_price)

(***************************************************************************)
(* C3.  Position is a function of the ledger, as stated: the stored        *)
(* Position of every pair is the Position that replaying the pair's stored *)
(* transactions from the empty state in ascending date order ends with,    *)
(* whatever order they were submitted in.                                  *)
(***************************************************************************)
C3_PositionIsReplayAnyOrder ==
    \A pair \in Pairs :
        \E h \in Histories(TransactionsOf(store, pair[1], pair[2])) :
            \E st \in ReplayFromEmpty(TransactionsOf(store, pair[1], pair[2]), h) :
                PositionView(store, pair[1], pair[2])
                    = PositionView(st, pair[1], pair[2])

\* C3 (amended).  After any serial sequence of create_transaction and
\* delete_transaction calls, the stored Position of a pair whose stored
\* transactions were submitted in strictly ascending transaction_date order
\* is the Position that replaying them from the empty state in ascending
\* date order ends with.
C3_PositionIsReplay ==
    \A pair \in Pairs :
        SubmittedInDateOrder(pair[1], pair[2]) =>
            \A h \in Histories(TransactionsOf(store, pair[1], pair[2])) :
                \A st \in ReplayFromEmpty(
                              TransactionsOf(store, pair[1], pair[2]), h) :
                    PositionView(store, pair[1], pair[2])
                        = PositionView(st, pair[1], pair[2])

\* A delete_transaction has run and left a pair with a stored transaction
\* and a Position.
C3_Witness ==
    /\ ~NothingDeleted
    /\ \E t \in transactions :
          /\ SubmittedInDateOrder(t.user_id, t.asset_id)
          /\ PositionsOf(store, t.user_id, t.asset_id) # {}

(***************************************************************************)
(* C4.  Atomicity of apply/recompute: no committed state of the store      *)
(* holds a recorded Transaction whose effect is not yet in the Position,   *)
(* nor a deleted Transaction or a deleted Position with the replay not yet *)
(* finished.                                                               *)
(***************************************************************************)
\* Session s has committed its Transaction and not yet its Position update.
RecordedNotApplied(s) ==
    /\ loc[s].op = "create"
    /\ pc[s] \in {"update_read", "update_write"}
    /\ \E t \in transactions : t.id = loc[s].id

\* Session s has committed the deletion of its Transaction (or of the
\* Position) and not yet the end of the replay.
DeletedNotReplayed(s) ==
    /\ loc[s].op = "delete"
    /\ pc[s] \in {"recalc_get", "recalc_delete", "recalc_query",
                  "update_read", "update_write"}

C4_ApplyAndRecomputeAtomic ==
    \A s \in Sessions : ~RecordedNotApplied(s) /\ ~DeletedNotReplayed(s)

(***************************************************************************)
(* C5.  Serialization on one pair: when two requests on the same pair      *)
(* (create_transaction or delete_transaction) overlapped and both have     *)
(* ended, the Position of the pair is the one that running the two         *)
(* requests one after the other, in one of the two orders, ends with.      *)
(***************************************************************************)
RunSerial(st, request) ==
    IF request.op = "create"
       THEN create_transaction(st, CHOOSE t \in request.transaction : TRUE,
                               request.user_id)
       ELSE delete_transaction(st, request.id, request.user_id)

SerialOutcomes(r1, r2) ==
    UNION {RunSerial(st, r2) : st \in RunSerial(base, r1)}

TwoOverlappedOnOnePair ==
    /\ Quiescent
    /\ Len(started) = 2
    /\ started[1].user_id = started[2].user_id
    /\ started[1].asset_id = started[2].asset_id

C5_SerializedOnOnePair ==
    TwoOverlappedOnOnePair =>
        \E st \in SerialOutcomes(started[1], started[2])
                    \cup SerialOutcomes(started[2], started[1]) :
            PositionView(store, started[1].user_id, started[1].asset_id)
                = PositionView(st, started[1].user_id, started[1].asset_id)

(***************************************************************************)
(* C6.  Uniqueness of Position: in every reachable state, also after       *)
(* concurrent first BUYs on one pair, at most one Position record exists   *)
(* per (user, asset) pair.                                                 *)
(***************************************************************************)
C6_OnePositionPerPair ==
    \A pair \in Pairs :
        Cardinality(PositionsOf(store, pair[1], pair[2])) <= 1

(***************************************************************************)
(* C7.  No zero or negative Position: every stored Position has            *)
(* quantity > 0, and a create_transaction of a SELL whose quantity equals  *)
(* or exceeds the held quantity leaves no Position record for the pair.    *)
(***************************************************************************)
SellsEverything ==
    /\ IsCreate
    /\ Created.transaction_type = SELL
    /\ \E p \in PositionsOf(store, Created.user_id, Created.asset_id) :
          ~RLess(Created.quantity, p.quantity)

C7_NoZeroOrNegativePosition ==
    /\ [](\A p \in positions : p.quantity[1] > 0)
    /\ [][SellsEverything =>
             PositionsOf(storeNext, Created.user_id, Created.asset_id) = {}]_vars

\* A BUY and then a SELL of at least the bought quantity were recorded for
\* one pair (nothing was deleted), and the pair has no Position.
C7_Witness ==
    /\ NothingDeleted
    /\ \E b, s \in transactions :
          /\ b.id = 1 /\ s.id = 2 /\ transaction_id_seq = 2
          /\ b.user_id = s.user_id /\ b.asset_id = s.asset_id
          /\ b.transaction_type = BUY /\ s.transaction_type = SELL
          /\ ~RLess(s.quantity, b.quantity)
          /\ PositionsOf(store, b.user_id, b.asset_id) = {}

(***************************************************************************)
(* C8.  SELL on an existing Position: the transaction's realized_pnl is    *)
(* (price - average cost before the sale) * quantity, the fee not          *)
(* subtracted; the Position that remains has its quantity decreased by the *)
(* sold quantity, total_invested decreased by average cost * sold          *)
(* quantity, and average_buy_price unchanged.  {quantity 10, average 100}  *)
(* and SELL 4 at 150 gives realized_pnl 200 and {6, 600, 100}.             *)
(***************************************************************************)
SellOnPosition(p) ==
    /\ IsCreate
    /\ Created.transaction_type = SELL
    /\ p \in PositionsOf(store, Created.user_id, Created.asset_id)

SellExample ==
    LET buy == [asset_id |-> 1, transaction_type |-> BUY, quantity |-> R(10),
                price |-> R(100), fee |-> R(0), transaction_date |-> 1]
        sell == [asset_id |-> 1, transaction_type |-> SELL, quantity |-> R(4),
                 price |-> R(150), fee |-> R(0), transaction_date |-> 2]
    IN  \A st1 \in create_transaction(EmptyStore, buy, 1) :
            /\ PositionView(st1, 1, 1) =
                   {[quantity |-> R(10), total_invested |-> R(1000),
                     average_buy_price |-> R(100)]}
            /\ \A st2 \in create_transaction(st1, sell, 1) :
                  /\ RowById(st2.transactions, 2).realized_pnl = R(200)
                  /\ PositionView(st2, 1, 1) =
                         {[quantity |-> R(6), total_invested |-> R(600),
                           average_buy_price |-> R(100)]}

C8_SellOnExistingPosition ==
    [][/\ SellExample
       /\ \A p \in positions :
             SellOnPosition(p) =>
                /\ Created.realized_pnl =
                       RMul(RSub(Created.price, p.average_buy_price),
                            Created.quantity)
                /\ RLess(Created.quantity, p.quantity) =>
                       PositionView(storeNext, p.user_id, p.asset_id) =
                          {[quantity |-> RSub(p.quantity, Created.quantity),
                            total_invested |->
                                RSub(p.total_invested,
                                     RMul(p.average_buy_price,
                                          Created.quantity)),
                            average_buy_price |-> p.average_buy_price]}]_vars

\* A BUY with a fee and then a partial SELL with a fee, at another price,
\* were recorded for one pair: the SELL has a realized PnL and a Position
\* remains.
C8_Witness ==
    /\ NothingDeleted
    /\ \E b, s \in transactions :
          /\ b.id = 1 /\ s.id = 2 /\ transaction_id_seq = 2
          /\ b.user_id = s.user_id /\ b.asset_id = s.asset_id
          /\ b.transaction_type = BUY /\ s.transaction_type = SELL
          /\ RLess(s.quantity, b.quantity)
          /\ s.fee # R(0)
          /\ s.realized_pnl # R(0)
          /\ PositionsOf(store, b.user_id, b.asset_id) # {}

(***************************************************************************)
(* C9.  First BUY: when no Position exists for the pair, a BUY creates a   *)
(* Position with quantity = transaction quantity, total_invested =         *)
(* total_amount = quantity * price + fee and average cost =                *)
(* total_invested / quantity, for every fee >= 0.                          *)
(***************************************************************************)
FirstBuy ==
    /\ IsCreate
    /\ Created.transaction_type = BUY
    /\ PositionsOf(store, Created.user_id, Created.asset_id) = {}

C9_FirstBuy ==
    [][FirstBuy =>
         /\ Created.total_amount =
                RAdd(RMul(Created.quantity, Created.price), Created.fee)
         /\ PositionView(storeNext, Created.user_id, Created.asset_id) =
                {[quantity |-> Created.quantity,
                  total_invested |-> Created.total_amount,
                  average_buy_price |->
                      RDiv(Created.total_amount, Created.quantity)]}]_vars

(***************************************************************************)
(* C10.  BUY on an existing Position is a weighted-average update: new     *)
(* quantity = old quantity + transaction quantity, new total_invested =    *)
(* old total_invested + total_amount (fee included), average cost = new    *)
(* total_invested / new quantity.  BUY 2 at 100 then BUY 2 at 200, no      *)
(* fees, gives {quantity 4, total_invested 600, average 150}.              *)
(***************************************************************************)
BuyOnPosition(p) ==
    /\ IsCreate
    /\ Created.transaction_type = BUY
    /\ p \in PositionsOf(store, Created.user_id, Created.asset_id)

BuyExample ==
    LET buy1 == [asset_id |-> 1, transaction_type |-> BUY, quantity |-> R(2),
                 price |-> R(100), fee |-> R(0), transaction_date |-> 1]
        buy2 == [asset_id |-> 1, transaction_type |-> BUY, quantity |-> R(2),
                 price |-> R(200), fee |-> R(0), transaction_date |-> 2]
    IN  \A st1 \in create_transaction(EmptyStore, buy1, 1) :
            \A st2 \in create_transaction(st1, buy2, 1) :
                PositionView(st2, 1, 1) =
                   {[quantity |-> R(4), total_invested |-> R(600),
                     average_buy_price |-> R(150)]}

C10_BuyOnExistingPosition ==
    [][/\ BuyExample
       /\ \A p \in positions :
             BuyOnPosition(p) =>
                /\ Created.total_amount =
                       RAdd(RMul(Created.quantity, Created.price), Created.fee)
                /\ PositionView(storeNext, p.user_id, p.asset_id) =
                       {[quantity |-> RAdd(p.quantity, Created.quantity),
                         total_invested |->
                             RAdd(p.total_invested, Created.total_amount),
                         average_buy_price |->
                             RDiv(RAdd(p.total_invested, Created.total_amount),
                                  RAdd(p.quantity, Created.quantity))]}]_vars

\* Two BUYs at different prices, the second with a fee, were recorded for
\* one pair (nothing was deleted), and the pair has a Position.
C10_Witness ==
    /\ NothingDeleted
    /\ \E b1, b2 \in transactions :
          /\ b1.id = 1 /\ b2.id = 2 /\ transaction_id_seq = 2
          /\ b1.user_id = b2.user_id /\ b1.asset_id = b2.asset_id
          /\ b1.transaction_type = BUY /\ b2.transaction_type = BUY
          /\ b1.price # b2.price
          /\ b2.fee # R(0)
          /\ \E p \in PositionsOf(store, b1.user_id, b1.asset_id) :
                p.quantity = RAdd(b1.quantity, b2.quantity)

(***************************************************************************)
(* C11.  Not-found outcomes have no side effects: delete_transaction with  *)
(* an id that does not exist or belongs to another user returns False      *)
(* (404), POST /transactions with an asset_id that does not exist is       *)
(* rejected (404), and both leave the transactions and the Positions       *)
(* unchanged; delete_transaction returns True exactly when a transaction   *)
(* owned by the caller was deleted.                                        *)
(***************************************************************************)
\* The stored transaction with this id belongs to this user.
Owns(user_id, transaction_id) ==
    \E t \in transactions : t.id = transaction_id /\ t.user_id = user_id

C11_NotFoundHasNoSideEffects ==
    \A user_id \in Users :
        /\ \A transaction_id \in 1..(MaxTx + 1) :
              IF Owns(user_id, transaction_id)
                 THEN /\ delete_transaction_returns(store, transaction_id,
                                                    user_id)
                      /\ delete_transaction_status(store, transaction_id,
                                                   user_id) = 200
                      /\ \A st \in delete_transaction(store, transaction_id,
                                                      user_id) :
                            transaction_id \notin {t.id : t \in st.transactions}
                 ELSE /\ ~delete_transaction_returns(store, transaction_id,
                                                     user_id)
                      /\ delete_transaction_status(store, transaction_id,
                                                   user_id) = 404
                      /\ delete_transaction(store, transaction_id, user_id)
                            = {store}
        /\ \A transaction \in TransactionRequest :
              transaction.asset_id \in MissingAssets =>
                 /\ create_transaction_status(store, transaction, user_id) = 404
                 /\ create_transaction_route(store, transaction, user_id)
                       = {store}

\* A user owns a transaction and a Position while another user owns none:
\* the id is there to be found, and not by the other user.
C11_Witness ==
    \E t \in transactions :
        /\ PositionsOf(store, t.user_id, t.asset_id) # {}
        /\ \E other \in Users :
              /\ other # t.user_id
              /\ ~Owns(other, t.id)
              /\ delete_transaction(store, t.id, other) = {store}

(***************************************************************************)
(* The portfolio summary: what its claims compare it with.                 *)
(***************************************************************************)
UserTransactions(user_id) == {t \in transactions : t.user_id = user_id}
UserPositions(user_id) == {p \in positions : p.user_id = user_id}

\* The transaction is at most `days` days old at clock value now.
InWindow(t, now, days) == now - t.transaction_date <= days

WindowBuys(user_id, now, days) ==
    {t \in UserTransactions(user_id) :
        t.transaction_type = BUY /\ InWindow(t, now, days)}

WindowSells(user_id, now, days) ==
    {t \in UserTransactions(user_id) :
        t.transaction_type = SELL /\ InWindow(t, now, days)}

TotalAmount(txs) == RSum([t \in txs |-> t.total_amount], txs)
TotalRealized(txs) == RSum([t \in txs |-> t.realized_pnl], txs)

WindowDays == {7, 30, 365}

\* The entry of summary s for the window of `days` days.
Entry(s, days) ==
    CASE days = 7 -> s.pnl_7d [] days = 30 -> s.pnl_30d [] days = 365 -> s.pnl_1y

Entries(s) == {s.pnl_7d, s.pnl_30d, s.pnl_1y, s.pnl_all}

\* No field of the summary is the result of a division by zero.
NoZeroDivision(s) ==
    /\ ZeroDivisionError \notin
          {s.total_invested, s.current_value, s.total_pnl,
           s.total_pnl_percentage}
    /\ \A e \in Entries(s) :
          ZeroDivisionError \notin
             {e.total_pnl, e.total_pnl_percentage, e.realized_pnl,
              e.unrealized_pnl}

(***************************************************************************)
(* C12.  Summary division guards: get_portfolio_summary never fails on a   *)
(* zero denominator; total_pnl_percentage is total_pnl / total_invested *  *)
(* 100 when total_invested > 0 and 0 otherwise; the percentage of a period *)
(* is 0 when its period_invested is 0; a user with no positions and no     *)
(* transactions gets a summary whose PnL and percentage fields are all 0.  *)
(***************************************************************************)
C12_SummaryDivisionGuards ==
    \A user_id \in Users, now \in Nows :
        /\ get_portfolio_summary(store, user_id, now) # {}
        /\ \A s \in get_portfolio_summary(store, user_id, now) :
              LET invested ==
                      RSum([p \in UserPositions(user_id) |-> p.total_invested],
                           UserPositions(user_id))
              IN  /\ NoZeroDivision(s)
                  /\ invested[1] > 0 =>
                        s.total_pnl_percentage =
                           RMul(RDiv(s.total_pnl, invested), R(100))
                  /\ invested[1] <= 0 => s.total_pnl_percentage = R(0)
                  /\ \A days \in WindowDays :
                        TotalAmount(WindowBuys(user_id, now, days)) = R(0) =>
                           Entry(s, days).total_pnl_percentage = R(0)
                  /\ TotalAmount({t \in UserTransactions(user_id) :
                                     t.transaction_type = BUY}) = R(0) =>
                        s.pnl_all.total_pnl_percentage = R(0)
                  /\ (UserPositions(user_id) = {}
                         /\ UserTransactions(user_id) = {}) =>
                        /\ s.total_pnl = R(0)
                        /\ s.total_pnl_percentage = R(0)
                        /\ \A e \in Entries(s) :
                              /\ e.total_pnl = R(0)
                              /\ e.total_pnl_percentage = R(0)
                              /\ e.realized_pnl = R(0)
                              /\ e.unrealized_pnl = R(0)

\* User 1 holds a Position and has a PnL, no BUY of user 1 is inside the
\* window of 7 days (its denominator is 0), and user 2 has no positions and
\* no transactions.
C12_Witness ==
    /\ UserPositions(2) = {} /\ UserTransactions(2) = {}
    /\ UserPositions(1) # {}
    /\ \E now \in Nows :
          /\ WindowBuys(1, now, 7) = {}
          /\ \E s \in get_portfolio_summary(store, 1, now) :
                /\ s.pnl_7d.total_pnl # R(0)
                /\ s.pnl_7d.total_pnl_percentage = R(0)
                /\ s.total_pnl_percentage # R(0)

(***************************************************************************)
(* C13.  Period windowing: a transaction contributes to the window of d    *)
(* days (d in 7, 30, 365) exactly when its transaction_date >= now - d     *)
(* days, and every transaction contributes to the all-time window; a       *)
(* transaction dated 10 days before now counts in 30d, 1y and all and not  *)
(* in 7d; the realized PnL of a period is the sum over the SELLs of the    *)
(* next larger window that are inside its range.                           *)
(***************************************************************************)
\* What the SELL t adds to the realized PnL of entry e of the summary at
\* clock value now: the realized PnL with t less the one without t.
Contribution(user_id, now, t, days) ==
    LET with == PortfolioSummary(UserPositions(user_id),
                                 UserTransactions(user_id), now)
        without == PortfolioSummary(UserPositions(user_id),
                                    UserTransactions(user_id) \ {t}, now)
    IN  IF days = 0
           THEN RSub(with.pnl_all.realized_pnl, without.pnl_all.realized_pnl)
           ELSE RSub(Entry(with, days).realized_pnl,
                     Entry(without, days).realized_pnl)

OverBuys(e, buys) ==
    RLess(R(0), TotalAmount(buys)) =>
        e.total_pnl_percentage =
            RMul(RDiv(e.total_pnl, TotalAmount(buys)), R(100))

C14_PeriodPercentageDenominator ==
    \A user_id \in Users, now \in Nows :
        \A s \in get_portfolio_summary(store, user_id, now) :
            /\ \A days \in WindowDays :
                  OverBuys(Entry(s, days), WindowBuys(user_id, now, days))
            /\ OverBuys(s.pnl_all,
                        {t \in UserTransactions(user_id) :
                            t.transaction_type = BUY})

(***************************************************************************)
(* C15.  SELL without a Position: when a SELL is applied and no Position   *)
(* exists for its (user, asset), the transaction is still stored, no       *)
(* Position is created and no realized PnL is recorded: the realized_pnl   *)
(* of a new transaction stays at its default 0, and applying a stored SELL *)
(* (in a replay) writes nothing.                                           *)
(***************************************************************************)
SellWithoutPosition ==
    /\ IsCreate
    /\ Created.transaction_type = SELL
    /\ PositionsOf(store, Created.user_id, Created.asset_id) = {}

C16_UnrealizedNotWindowed ==
    \A user_id \in Users, now \in Nows :
        \A s \in get_portfolio_summary(store, user_id, now) :
            LET unrealized ==
                    RSum([p \in UserPositions(user_id) |-> p.unrealized_pnl],
                         UserPositions(user_id))
            IN  \A e \in Entries(s) :
                    /\ e.unrealized_pnl = unrealized
                    /\ e.total_pnl = RAdd(e.realized_pnl, unrealized)

\* User 1 holds two Positions with an unrealized PnL each and has a realized
\* PnL inside one window and outside another: the entries differ in
\* realized_pnl and share unrealized_pnl.
C16_Witness ==
    /\ \E p1, p2 \in UserPositions(1) :
          /\ p1.id # p2.id
          /\ p1.unrealized_pnl # R(0)
          /\ p2.unrealized_pnl # R(0)
    /\ \E now \in Nows :
          \E s \in get_portfolio_summary(store, 1, now) :
             /\ s.pnl_7d.realized_pnl # s.pnl_30d.realized_pnl
             /\ s.pnl_7d.unrealized_pnl # R(0)
             /\ s.pnl_7d.total_pnl # s.pnl_30d.total_pnl

(***************************************************************************)
(* C17.  Realized PnL belongs to SELLs only: every stored BUY transaction  *)
(* has realized_pnl = 0 in every reachable state (apply and recompute      *)
(* never write it), and the all-time realized_pnl of the summary is the    *)
(* sum of realized_pnl over the SELL transactions only.                    *)
(***************************************************************************)
\* The rows txs with the realized_pnl of every BUY replaced by a value that
\* is not 0: an input on which a sum over all rows and a sum over the SELLs
\* differ.
WithPnlOnBuys(txs) ==
    {IF t.transaction_type = BUY THEN [t EXCEPT !.realized_pnl = R(5)] ELSE t :
        t \in txs}

C17_RealizedPnlOnSellsOnly ==
    /\ \A t \in transactions :
          t.transaction_type = BUY => t.realized_pnl = R(0)
    /\ \A user_id \in Users, now \in Nows :
          LET sells == {t \in UserTransactions(user_id) :
                           t.transaction_type = SELL}
          IN  /\ \A s \in get_portfolio_summary(store, user_id, now) :
                    s.pnl_all.realized_pnl = TotalRealized(sells)
              /\ PortfolioSummary(UserPositions(user_id),
                                  WithPnlOnBuys(UserTransactions(user_id)),
                                  now).pnl_all.realized_pnl
                    = TotalRealized(sells)

\* After a deletion and its recompute user 1 has a BUY that was replayed and
\* a SELL with a realized PnL.
C17_Witness ==
    /\ ~NothingDeleted
    /\ \E b, s \in UserTransactions(1) :
          /\ b.transaction_type = BUY /\ s.transaction_type = SELL
          /\ b.asset_id = s.asset_id
          /\ b.transaction_date < s.transaction_date
          /\ s.realized_pnl # R(0)
          /\ \E now \in Nows :
                \E sm \in get_portfolio_summary(store, 1, now) :
                   sm.pnl_all.realized_pnl = s.realized_pnl

(***************************************************************************)
(* C18.  Independence of pairs: create_transaction and delete_transaction  *)
(* for one (user, asset) pair leave the Positions and the transactions of  *)
(* every other pair unchanged, so two overlapping requests on different    *)
(* pairs end in the state that running them one after the other, in either *)
(* order, ends in.                                                         *)
(***************************************************************************)
RequestPair(r) == <<r.user_id, r.asset_id>>

\* The step is a statement of a request on this pair.
StepOfRequestOn(pair) ==
    \E s \in Sessions :
        /\ pc'[s] # pc[s] \/ loc'[s] # loc[s]
        /\ RequestPair(IF loc[s].op = "none" THEN loc'[s] ELSE loc[s]) = pair

\* A stored transaction without its id (ids depend on the order in which the
\* requests reach the table).
Recorded(t) ==
    [user_id |-> t.user_id, payload |-> Payload(t),
     total_amount |-> t.total_amount, realized_pnl |-> t.realized_pnl]

\* Stores st1 and st2 say the same about the pair.
SameForPair(st1, st2, pair) ==
    /\ PositionView(st1, pair[1], pair[2]) = PositionView(st2, pair[1], pair[2])
    /\ Cardinality(PositionsOf(st1, pair[1], pair[2]))
          = Cardinality(PositionsOf(st2, pair[1], pair[2]))
    /\ {Recorded(t) : t \in TransactionsOf(st1, pair[1], pair[2])}
          = {Recorded(t) : t \in TransactionsOf(st2, pair[1], pair[2])}
    /\ Cardinality(TransactionsOf(st1, pair[1], pair[2]))
          = Cardinality(TransactionsOf(st2, pair[1], pair[2]))

\* Exactly two requests overlapped since the store was last quiescent.
TwoOverlappedOnDifferentPairs ==
    /\ Quiescent
    /\ Len(started) = 2
    /\ started[1].op # "many" /\ started[2].op # "many"
    /\ RequestPair(started[1]) # RequestPair(started[2])

C18_Witness ==
    /\ TwoOverlappedOnDifferentPairs
    /\ {started[1].op, started[2].op} = {"create", "delete"}
    /\ \A i \in {1, 2} :
          ~SameForPair(store, base, RequestPair(started[i]))
    /\ positions # {}

(***************************************************************************)
(* C19.  Realized PnL after deletion: after delete_transaction and its     *)
(* recompute, every remaining SELL of the pair carries the realized_pnl    *)
(* that replaying the remaining history from the empty state assigns to    *)
(* it: (price - average cost at its replay point) * quantity when a        *)
(* Position exists at that point, and 0 when none exists.                  *)
(***************************************************************************)
\* The step is a delete_transaction call that removed the row Deleted.
IsDelete ==
    /\ transactions' # transactions
    /\ transactions' \subseteq transactions
Deleted == CHOOSE t \in transactions \ transactions' : TRUE

\* The Positions that can exist just before the k-th transaction of history
\* h is replayed, starting from no Position.
PositionsAt(txs, h, k) ==
    {st.positions :
        st \in Replay([transactions |-> txs, positions |-> {},
                       transaction_id_seq |-> 0],
                      SubSeq(h, 1, k - 1))}

\* The realized_pnl the replay of h assigns to its k-th transaction, a SELL.
ReplayAssigned(txs, h, k) ==
    {IF ps = {} THEN R(0)
     ELSE RealizedPnl(CHOOSE p \in ps : TRUE, RowById(txs, h[k])) :
        ps \in PositionsAt(txs, h, k)}

C19_RealizedPnlAfterDeletion ==
    [][IsDelete =>
          LET txs == TransactionsOf(storeNext, Deleted.user_id, Deleted.asset_id)
          IN  \E h \in Histories(txs) :
                 \A k \in DOMAIN h :
                    RowById(txs, h[k]).transaction_type = SELL
                       => RowById(txs, h[k]).realized_pnl
                             \in ReplayAssigned(txs, h, k)]_vars

(***************************************************************************)
(* C20.  Record-then-remove round trip, as stated: in every reachable      *)
(* state and for every valid transaction t, create_transaction(t) followed *)
(* by delete_transaction(t.id) by the same user leaves the Position of t's *)
(* pair equal to the Position (or absence of Position) that existed before *)
(* t was recorded, and leaves the other stored transactions unchanged.     *)
(***************************************************************************)
\* The stores that create_transaction followed by delete_transaction of the
\* row just created can end in.
RoundTrip(st, transaction, user_id) ==
    UNION {delete_transaction(st1, st1.transaction_id_seq, user_id) :
              st1 \in create_transaction(st, transaction, user_id)}

RoundTripRestores(transaction, user_id) ==
    \A st \in RoundTrip(store, transaction, user_id) :
        /\ PositionView(st, user_id, transaction.asset_id)
              = PositionView(store, user_id, transaction.asset_id)
        /\ st.transactions = store.transactions

C20_RoundTripAnyState ==
    \A user_id \in Users, transaction \in TransactionCreate :
        RoundTripRestores(transaction, user_id)

\* C20 (amended).  In every reachable state in which the stored transactions
\* of t's pair were submitted in strictly ascending transaction_date order,
\* create_transaction(t) followed by delete_transaction(t.id) by the same
\* user leaves the Position of the pair equal to the one that existed before
\* t was recorded, and leaves the other stored transactions unchanged.
C20_RoundTrip ==
    \A user_id \in Users, transaction \in TransactionCreate :
        SubmittedInDateOrder(user_id, transaction.asset_id)
            => RoundTripRestores(transaction, user_id)

\* A pair submitted in date order holds a BUY, a SELL and a Position; a
\* further transaction changes the Position when it is recorded, and its
\* removal brings the earlier Position back.
C20_Witness ==
    \E user_id \in Users, transaction \in TransactionCreate :
        /\ SubmittedInDateOrder(user_id, transaction.asset_id)
        /\ PositionsOf(store, user_id, transaction.asset_id) # {}
        /\ \E t \in TransactionsOf(store, user_id, transaction.asset_id) :
              t.transaction_type = SELL
        /\ \A st1 \in create_transaction(store, transaction, user_id) :
              PositionView(st1, user_id, transaction.asset_id)
                 # PositionView(store, user_id, transaction.asset_id)
        /\ RoundTrip(store, transaction, user_id) # {}
        /\ RoundTripRestores(transaction, user_id)

(***************************************************************************)
(* C21.  Recompute is idempotent: for a pair whose stored transactions     *)
(* have distinct dates, running recalculate_position twice in a row with   *)
(* an unchanged transaction set gives the same Position and the same       *)
(* realized_pnl on every transaction as running it once.                   *)
(***************************************************************************)
\* Every second run of recalculate_position ends as the first run did.
RecomputeTwiceIsOnce(user_id, asset_id) ==
    \A st1 \in recalculate_position(store, user_id, asset_id) :
        \A st2 \in recalculate_position(st1, user_id, asset_id) :
            /\ PositionView(st2, user_id, asset_id)
                  = PositionView(st1, user_id, asset_id)
            /\ Cardinality(PositionsOf(st2, user_id, asset_id))
                  = Cardinality(PositionsOf(st1, user_id, asset_id))
            /\ st2.transactions = st1.transactions

C21_RecomputeIdempotent ==
    \A pair \in Pairs :
        DistinctDates(TransactionsOf(store, pair[1], pair[2]))
            => RecomputeTwiceIsOnce(pair[1], pair[2])

\* A pair holds a BUY and a SELL of distinct dates that were submitted out
\* of date order; the first recompute changes the Position and the
\* realized_pnl of the SELL, and the second changes nothing more.
C21_Witness ==
    \E pair \in Pairs :
        LET txs == TransactionsOf(store, pair[1], pair[2])
        IN  /\ DistinctDates(txs)
            /\ \E b, s \in txs : /\ b.transaction_type = BUY
                                 /\ s.transaction_type = SELL
            /\ \A st1 \in recalculate_position(store, pair[1], pair[2]) :
                  /\ PositionView(st1, pair[1], pair[2])
                        # PositionView(store, pair[1], pair[2])
                  /\ st1.transactions # store.transactions
            /\ recalculate_position(store, pair[1], pair[2]) # {}
            /\ RecomputeTwiceIsOnce(pair[1], pair[2])

====
